---- MODULE Spec2Model ----
(***************************************************************************)
(* Local OCI-layout storage of kubectl-mft: Save, Dump, Path, Copy,        *)
(* Delete (both the index/GC implementation of internal/repository and the *)
(* store-delete implementation of internal/oci), Sign and Verify.          *)
(*                                                                         *)
(* A repository is a directory baseDir/<registry>/<repository> holding     *)
(* index.json and blobs/<alg>/<hex>.  Byte strings are modelled as records *)
(* and the SHA-256 digest as an injective wrapper around the bytes.  File  *)
(* contents are taken to differ from the two-byte empty config "{}".       *)
(***************************************************************************)
EXTENDS Integers, Sequences, FiniteSets, TLC

\* ------------------------------------------------------------------ bounds
MaxTime == 1
MaxOps == 3
MaxSigOps == 4
MaxSigs == 2
MaxPullOps == 4
MaxPackOps == 2
MaxCopyOps == 3
MaxLen == 2
MaxNameLen == 3
MaxTrips == 2
MaxNetOps == 3
MaxKeyOps == 3
MaxCorruptOps == 4
MaxConcOps == 4
MaxDelOps == 3
MaxGcOps == 4
MaxApplyOps == 5

\* ------------------------------------------------------------------ inputs
\* Repository names as path components of Name(): registry, then repository.
Repos == { <<"localhost:5000", "app">>, <<"localhost:5000", "app", "sub">> }
Tags == {"v1", "v2"}
Files == {"f1", "f2"}
Keys == {"k1", "k2"}
KeyLists == {<<>>} \cup {<<k>> : k \in Keys} \cup {<<k, j>> : <<k, j>> \in {x \in Keys \X Keys : x[1] # x[2]}}

\* --------------------------------------------------------------- constants
artifactType == "application/vnd.kubectl-mft.v1"
contentMediaType == "application/vnd.kubectl-mft.content.v1+yaml"
SignatureArtifactType == "application/vnd.kubectl-mft.signature.v1"
SignatureMediaType == "application/vnd.kubectl-mft.signature.v1+der"
MediaTypeImageManifest == "application/vnd.oci.image.manifest.v1+json"
MediaTypeEmptyJSON == "application/vnd.oci.empty.v1+json"

\* ------------------------------------------------------------- data model
\* digest.FromBytes: the digest of a byte string.
FromBytes(b) == [sha256 |-> b]

FileBytes(f) == [file |-> f]
EmptyJSON == [empty |-> "{}"]
NoSubject == [none |-> TRUE]
NoDesc == [notfound |-> TRUE]

\* v1.Descriptor: media type, digest and the title annotation.
Descriptor(mt, d, title) == [mediaType |-> mt, digest |-> d, title |-> title]

DescriptorEmptyJSON == Descriptor(MediaTypeEmptyJSON, FromBytes(EmptyJSON), <<>>)

\* oras.PackManifest (version 1.1): the manifest JSON with an empty config,
\* the given layers and subject, and the title/created annotations.
PackManifest(at, layers, subject, title, created) ==
    [artifactType |-> at, config |-> DescriptorEmptyJSON, layers |-> layers,
     subject |-> subject, title |-> title, created |-> created]

\* An index.json entry: a manifest digest and its ref.name annotation ("" if none).
Entry(d, ref) == [digest |-> d, ref |-> ref]

\* A key file that does not exist; otherwise a key file is its permission bits.
NoFile == -1

\* Invocations that run at the same time, and the working directory
\* /tmp/kubectl-mft: its files by name, and where each invocation stands.
Procs == {1, 2}
Idle == [at |-> "idle"]
NoWork == [files |-> <<>>, pc |-> [p \in Procs |-> Idle]]

NoLayout == [exists |-> FALSE, index |-> {}, blobs |-> <<>>]
EmptyLayout == [exists |-> TRUE, index |-> {}, blobs |-> <<>>]

VARIABLES layout, remote, clock, nsig, ops, last, keyfiles, corrupt, work
vars == <<layout, remote, clock, nsig, ops, last, keyfiles, corrupt, work>>

\* ---------------------------------------------------------- oras oci.Store
\* oci.New(layoutPath): opens the layout, creating directory and empty index.
newOCILayoutStore(lay) == IF lay.exists THEN lay ELSE EmptyLayout

Tagged(index) == {e \in index : e.ref # ""}
Digests(index) == {e.digest : e \in index}

\* Store.saveIndex: one entry per (tag, manifest) and one untagged entry per
\* manifest that no tag names.
saveIndex(tagged, digs) ==
    tagged \cup {Entry(d, "") : d \in digs \ {e.digest : e \in tagged}}

\* Variant: the entry is added without replacing the one that holds ref.
Tag_Append(index, d, ref) ==
    saveIndex(Tagged(index) \cup {Entry(d, ref)}, Digests(index) \cup {d})

\* Store.Tag(desc, ref): upsert of ref in the tag resolver, then saveIndex.
Tag(index, d, ref) ==
    saveIndex({e \in Tagged(index) : e.ref # ref} \cup {Entry(d, ref)},
              Digests(index) \cup {d})

\* Store.Push of a manifest: stored and tagged by its own digest.
PushManifest(index, d) == saveIndex(Tagged(index), Digests(index) \cup {d})

\* Store.Resolve(ref).
Resolve(lay, ref) ==
    IF \E e \in lay.index : e.ref = ref
    THEN (CHOOSE e \in lay.index : e.ref = ref).digest
    ELSE NoDesc

HasBlob(lay, d) == d \in DOMAIN lay.blobs

\* content.FetchAll of a manifest digest and json.Unmarshal into v1.Manifest.
FetchManifest(lay, d) == lay.blobs[d]

\* content.Successors of a manifest: subject, config, layers.
LayerDigests(m) == {m.layers[i].digest : i \in DOMAIN m.layers}
SuccessorBlobs(m) == LayerDigests(m) \cup {m.config.digest}

\* Variant: a reference the destination already holds is left where it is.
copy_KeepExistingTag(srcBlobs, dst, d, dstRef) ==
    LET m == srcBlobs[d]
        graph == SuccessorBlobs(m) \cup {d} IN
    [exists |-> TRUE,
     index |-> IF Resolve(dst, dstRef) # NoDesc THEN PushManifest(dst.index, d)
               ELSE Tag(PushManifest(dst.index, d), d, dstRef),
     blobs |-> IF HasBlob(dst, d) THEN dst.blobs
               ELSE dst.blobs @@ [x \in graph |-> srcBlobs[x]]]

\* The root of a copy and everything it points to.
Graph(srcBlobs, root) == SuccessorBlobs(srcBlobs[root]) \cup {root}

\* Variant: every blob of the graph is transferred, present or not.
copyGraph_NoExistsCheck(srcBlobs, dstBlobs, root, part) ==
    LET got == SuccessorBlobs(srcBlobs[root]) \cap part
        written == IF got = SuccessorBlobs(srcBlobs[root]) /\ root \in part
                   THEN got \cup {root} ELSE got IN
    [written |-> written,
     blobs |-> [x \in DOMAIN dstBlobs \cup written |->
                   IF x \in written THEN srcBlobs[x] ELSE dstBlobs[x]]]

\* oras.CopyGraph: a node the destination holds is skipped with everything
\* below it; otherwise its successors are copied first (concurrently, so in
\* any order) and then the node itself.  part is the set of blobs whose
\* transfer completes before the context is cancelled: the whole graph for a
\* run that is not cancelled.  The blobs written and the blobs afterwards.
copyGraph(srcBlobs, dstBlobs, root, part) ==
    LET missing == IF root \in DOMAIN dstBlobs THEN {}
                   ELSE {x \in SuccessorBlobs(srcBlobs[root]) : x \notin DOMAIN dstBlobs}
        got == missing \cap part
        written == IF root \notin DOMAIN dstBlobs /\ got = missing /\ root \in part
                   THEN got \cup {root} ELSE got IN
    [written |-> written,
     blobs |-> [x \in DOMAIN dstBlobs \cup written |->
                   IF x \in written THEN srcBlobs[x] ELSE dstBlobs[x]]]

\* oras.Copy cancelled before the root is tagged: the blobs of part are
\* transferred; a manifest pushed into an oci.Store enters its index.
copyCancelled(srcBlobs, dst, d, part) ==
    LET g == copyGraph(srcBlobs, dst.blobs, d, part) IN
    [exists |-> TRUE,
     index |-> IF d \in g.written THEN PushManifest(dst.index, d) ELSE dst.index,
     blobs |-> g.blobs]

\* oras.Copy into an oci.Store: the graph of the root is copied, then the
\* root is tagged dstRef.
copy(srcBlobs, dst, d, dstRef) ==
    [exists |-> TRUE,
     index |-> Tag(PushManifest(dst.index, d), d, dstRef),
     blobs |-> copyGraph(srcBlobs, dst.blobs, d, Graph(srcBlobs, d)).blobs]

\* os.RemoveAll(baseDir/Name()): the directory and everything below it.
IsPrefix(p, q) == Len(p) <= Len(q) /\ SubSeq(q, 1, Len(p)) = p
RemoveAll(lays, r) == [x \in Repos |-> IF IsPrefix(r, x) THEN NoLayout ELSE lays[x]]

\* ------------------------------------------------------------- operations
NoOp == [op |-> "none", repo |-> <<>>, tag |-> "", res |-> "", desc |-> NoDesc,
         out |-> <<>>, dst |-> <<>>, dtag |-> "", impl |-> "", sigm |-> NoDesc,
         written |-> {}, pulled |-> FALSE, skip |-> FALSE, applied |-> FALSE]

Init ==
    /\ layout = [r \in Repos |-> NoLayout]
    /\ remote = [r \in Repos |-> NoLayout]
    /\ clock = 0
    /\ nsig = 0
    /\ ops = 0
    /\ keyfiles = [k \in Keys |-> NoFile]
    /\ corrupt = {}
    /\ work = NoWork
    /\ last = NoOp

\* newFileStore: the file added under the name Name():tag and wrapped as a
\* single-layer manifest titled Name(); the staging store's blobs.
newFileStore(r, t, f, now) ==
    LET contentDesc == Descriptor(contentMediaType, FromBytes(FileBytes(f)), <<r, t>>)
        m == PackManifest(artifactType, <<contentDesc>>, NoSubject, r, now) IN
    [root |-> FromBytes(m),
     blobs |-> (contentDesc.digest :> FileBytes(f))
               @@ (DescriptorEmptyJSON.digest :> EmptyJSON)
               @@ (FromBytes(m) :> m)]

\* Repository.Save on the layouts lays at time now: the layouts it leaves.
SaveOf(lays, r, t, f, now) ==
    LET fs == newFileStore(r, t, f, now) IN
    [lays EXCEPT ![r] = copy(fs.blobs, newOCILayoutStore(lays[r]), fs.root, t)]

\* The blobs a Save writes into the layout.
SaveWrites(lays, r, t, f, now) ==
    LET fs == newFileStore(r, t, f, now) IN
    copyGraph(fs.blobs, newOCILayoutStore(lays[r]).blobs, fs.root,
              Graph(fs.blobs, fs.root)).written

\* Repository.Save
Save(r, t, f) ==
    /\ \E now \in clock..MaxTime :
        /\ clock' = now
        /\ layout' = SaveOf(layout, r, t, f, now)
        /\ last' = [NoOp EXCEPT !.op = "Save", !.repo = r, !.tag = t, !.res = "ok",
                                !.desc = newFileStore(r, t, f, now).root, !.out = <<f>>,
                                !.written = SaveWrites(layout, r, t, f, now)]
    /\ UNCHANGED <<remote, nsig>>

\* The body shared by Dump and Path: resolve, fetch manifest, single layer.
DumpOf(lay, t) ==
    LET d == Resolve(lay, t) IN
    IF d = NoDesc THEN [res |-> "notfound", out |-> <<>>]
    ELSE IF ~HasBlob(lay, d) THEN [res |-> "error", out |-> <<>>]
    ELSE LET m == FetchManifest(lay, d) IN
         IF Len(m.layers) # 1 THEN [res |-> "error", out |-> <<>>]
         ELSE IF ~HasBlob(lay, m.layers[1].digest) THEN [res |-> "error", out |-> <<>>]
         ELSE [res |-> "ok", out |-> <<lay.blobs[m.layers[1].digest].file>>]

\* Repository.Dump
Dump(r, t) ==
    /\ LET lay == newOCILayoutStore(layout[r])
           d == DumpOf(lay, t) IN
        /\ layout' = [layout EXCEPT ![r] = lay]
        /\ last' = [NoOp EXCEPT !.op = "Dump", !.repo = r, !.tag = t, !.res = d.res,
                                !.desc = Resolve(lay, t), !.out = d.out]
    /\ UNCHANGED <<remote, clock, nsig>>

\* Variant: the path of the manifest blob instead of the layer blob.
PathOf_ManifestBlob(r, lay, t) ==
    LET d == Resolve(lay, t) IN
    IF d = NoDesc THEN [res |-> "notfound", out |-> <<>>]
    ELSE IF ~HasBlob(lay, d) THEN [res |-> "error", out |-> <<>>]
    ELSE [res |-> "ok", out |-> <<r, "blobs", d>>]

\* Repository.Path: the blob file of the single layer.
PathOf(r, lay, t) ==
    LET d == Resolve(lay, t) IN
    IF d = NoDesc THEN [res |-> "notfound", out |-> <<>>]
    ELSE IF ~HasBlob(lay, d) THEN [res |-> "error", out |-> <<>>]
    ELSE LET m == FetchManifest(lay, d) IN
         IF Len(m.layers) # 1 THEN [res |-> "error", out |-> <<>>]
         ELSE [res |-> "ok", out |-> <<r, "blobs", m.layers[1].digest>>]

Path(r, t) ==
    /\ LET lay == newOCILayoutStore(layout[r])
           p == PathOf(r, lay, t) IN
        /\ layout' = [layout EXCEPT ![r] = lay]
        /\ last' = [NoOp EXCEPT !.op = "Path", !.repo = r, !.tag = t, !.res = p.res,
                                !.desc = Resolve(lay, t), !.out = p.out]
    /\ UNCHANGED <<remote, clock, nsig>>

\* Variant: the destination tag is not looked up before the transfer.
Copy_Overwrite(r, t, dr, dt) ==
    /\ LET sstore == newOCILayoutStore(layout[r])
           sd == Resolve(sstore, t)
           opened == [layout EXCEPT ![r] = sstore]
           destStore == newOCILayoutStore(opened[dr])
           both == [opened EXCEPT ![dr] = destStore]
           rec == [NoOp EXCEPT !.op = "Copy", !.repo = r, !.tag = t, !.desc = sd,
                               !.dst = dr, !.dtag = dt] IN
        IF sd = NoDesc
        THEN /\ layout' = opened
             /\ last' = [rec EXCEPT !.res = "notfound"]
        ELSE /\ layout' = [both EXCEPT ![dr] = copy(sstore.blobs, destStore, sd, dt)]
             /\ last' = [rec EXCEPT !.res = "ok"]
    /\ UNCHANGED <<remote, clock, nsig>>

\* Variant: the manifest arrives under the source's tag name as well.
Copy_AlsoSourceTag(r, t, dr, dt) ==
    /\ LET sstore == newOCILayoutStore(layout[r])
           sd == Resolve(sstore, t)
           opened == [layout EXCEPT ![r] = sstore]
           destStore == newOCILayoutStore(opened[dr])
           both == [opened EXCEPT ![dr] = destStore]
           rec == [NoOp EXCEPT !.op = "Copy", !.repo = r, !.tag = t, !.desc = sd,
                               !.dst = dr, !.dtag = dt] IN
        IF sd = NoDesc
        THEN /\ layout' = opened
             /\ last' = [rec EXCEPT !.res = "notfound"]
        ELSE IF Resolve(destStore, dt) # NoDesc
        THEN /\ layout' = both
             /\ last' = [rec EXCEPT !.res = "exists"]
        ELSE /\ layout' = [both EXCEPT ![dr] =
                              copy(sstore.blobs, copy(sstore.blobs, destStore, sd, t),
                                   sd, dt)]
             /\ last' = [rec EXCEPT !.res = "ok"]
    /\ UNCHANGED <<remote, clock, nsig>>

\* Repository.Copy (cp): source must resolve, destination tag must not.
Copy(r, t, dr, dt) ==
    /\ LET sstore == newOCILayoutStore(layout[r])
           sd == Resolve(sstore, t)
           opened == [layout EXCEPT ![r] = sstore]
           destStore == newOCILayoutStore(opened[dr])
           both == [opened EXCEPT ![dr] = destStore]
           rec == [NoOp EXCEPT !.op = "Copy", !.repo = r, !.tag = t, !.desc = sd,
                               !.dst = dr, !.dtag = dt] IN
        IF sd = NoDesc
        THEN /\ layout' = opened
             /\ last' = [rec EXCEPT !.res = "notfound"]
        ELSE IF Resolve(destStore, dt) # NoDesc
        THEN /\ layout' = both
             /\ last' = [rec EXCEPT !.res = "exists"]
        ELSE /\ layout' = [both EXCEPT ![dr] = copy(sstore.blobs, destStore, sd, dt)]
             /\ last' = [rec EXCEPT !.res = "ok"]
    /\ UNCHANGED <<remote, clock, nsig>>

\* ---------------------------------------------- Delete, internal/repository
\* removeTagFromIndex: index.json rewritten without the entries named tag.
removeTagFromIndex(index, tag) == {e \in index : e.ref # tag}

\* Variant: the manifests' layers and config are not collected.
getReferencedBlobs_EntriesOnly(lay) == {e.digest : e \in lay.index}

\* getReferencedBlobs: every index entry's digest and, where its manifest blob
\* is readable, the manifest's layers and config.
getReferencedBlobs(lay) ==
    {e.digest : e \in lay.index}
    \cup UNION {SuccessorBlobs(lay.blobs[e.digest]) :
                    e \in {x \in lay.index : HasBlob(lay, x.digest)}}

\* Variant: no blob file is removed.
deleteBlobFile_Keep(blobs, ds) == blobs

\* deleteBlobFile: os.Remove of each listed blob.
deleteBlobFile(blobs, ds) == [d \in DOMAIN blobs \ ds |-> blobs[d]]

\* repository.Repository.Delete
RepositoryDelete(r, t) ==
    /\ LET lay == newOCILayoutStore(layout[r])
           desc == Resolve(lay, t)
           rec == [NoOp EXCEPT !.op = "Delete", !.impl = "repository", !.repo = r,
                               !.tag = t, !.desc = desc] IN
        IF desc = NoDesc
        THEN /\ layout' = [layout EXCEPT ![r] = lay]
             /\ last' = [rec EXCEPT !.res = "notfound"]
        ELSE IF ~HasBlob(lay, desc)
        THEN /\ layout' = [layout EXCEPT ![r] = lay]
             /\ last' = [rec EXCEPT !.res = "error"]
        ELSE LET m == FetchManifest(lay, desc)
                 index1 == removeTagFromIndex(lay.index, t)
                 referencedBlobs == getReferencedBlobs([lay EXCEPT !.index = index1])
                 orphanedBlobs == {d \in LayerDigests(m) \cup {desc} : d \notin referencedBlobs}
                 lay1 == [lay EXCEPT !.index = index1,
                                     !.blobs = deleteBlobFile(lay.blobs, orphanedBlobs)] IN
             /\ layout' = IF index1 = {}
                          THEN RemoveAll([layout EXCEPT ![r] = lay1], r)
                          ELSE [layout EXCEPT ![r] = lay1]
             /\ last' = [rec EXCEPT !.res = "deleted"]
    /\ UNCHANGED <<remote, clock, nsig>>

\* The blobs of the manifest desc that a Delete of tag t finds orphaned: its
\* layers and itself, unless the index without the tag still references them.
orphanedBlobsOf(lay, t, desc) ==
    LET referencedBlobs ==
            getReferencedBlobs([lay EXCEPT !.index = removeTagFromIndex(lay.index, t)]) IN
    {d \in LayerDigests(FetchManifest(lay, desc)) \cup {desc} : d \notin referencedBlobs}

\* Variant: the blobs are removed while index.json still lists the tag.
DeleteStoppedOf_BlobsFirst(lay, t, gone) ==
    [lay EXCEPT !.blobs = deleteBlobFile(lay.blobs, gone)]

\* The layout a Delete leaves that got as far as removing the blobs gone:
\* index.json was rewritten without the tag before the first blob was removed.
DeleteStoppedOf(lay, t, gone) ==
    [lay EXCEPT !.index = removeTagFromIndex(lay.index, t),
                !.blobs = deleteBlobFile(lay.blobs, gone)]

\* repository.Repository.Delete that stops part-way, or runs to its end
\* (finished) while removals of blobs fail: of the orphaned blobs only those
\* in gone are removed.
RepositoryDeleteStopped(r, t, finished) ==
    /\ LET lay == newOCILayoutStore(layout[r])
           desc == Resolve(lay, t) IN
        /\ desc # NoDesc
        /\ HasBlob(lay, desc)
        /\ \E gone \in SUBSET orphanedBlobsOf(lay, t, desc) :
            LET lay1 == DeleteStoppedOf(lay, t, gone) IN
            /\ layout' = IF finished /\ lay1.index = {}
                         THEN RemoveAll([layout EXCEPT ![r] = lay1], r)
                         ELSE [layout EXCEPT ![r] = lay1]
            /\ last' = [NoOp EXCEPT !.op = "DeleteStopped", !.impl = "repository",
                                    !.repo = r, !.tag = t, !.desc = desc,
                                    !.res = IF finished THEN "deleted" ELSE "stopped",
                                    !.out = <<gone>>]
    /\ UNCHANGED <<remote, clock, nsig>>

\* ------------------------------------------------------ Delete, internal/oci
SubjectDigest(m) == IF m.subject = NoSubject THEN NoDesc ELSE m.subject.digest

\* The manifests of the store's graph: index entries whose blob is stored.
Manifests(lay) == {d \in Digests(lay.index) : HasBlob(lay, d)}

\* Store.Predecessors of a manifest: the manifests naming it as subject.
Predecessors(lay, d) == {x \in Manifests(lay) : SubjectDigest(lay.blobs[x]) = d}

\* Store.Delete with AutoDeleteReferrers: the target and, transitively, its
\* referrers.
RECURSIVE DeleteQueue(_, _)
DeleteQueue(lay, ds) ==
    LET more == ds \cup UNION {Predecessors(lay, d) : d \in ds} IN
    IF more = ds THEN ds ELSE DeleteQueue(lay, more)

\* Variant: the manifest, its tags and its blobs are left in place.
StoreDelete_KeepAll(lay, target) == lay

\* Store.Delete with AutoGC: untags every reference to a deleted manifest,
\* removes its blob, and removes the successors left without a predecessor.
StoreDelete(lay, target) ==
    LET removed == DeleteQueue(lay, {target})
        kept == Manifests(lay) \ removed
        danglings == UNION {SuccessorBlobs(lay.blobs[d]) : d \in removed}
                     \ UNION {SuccessorBlobs(lay.blobs[d]) : d \in kept} IN
    [lay EXCEPT !.index = {e \in lay.index : e.digest \notin removed},
                !.blobs = [d \in DOMAIN lay.blobs \ (removed \cup danglings) |-> lay.blobs[d]]]

\* deleteRepositoryIfEmpty: RemoveAll when index.json lists no manifest.
deleteRepositoryIfEmpty(lays, r) ==
    IF lays[r].index # {} THEN lays ELSE RemoveAll(lays, r)

\* oci.Repository.Delete on the layouts lays: the layouts it leaves, its
\* result and the descriptor the tag resolved to.
DeleteOf(lays, r, t) ==
    LET layoutStore == newOCILayoutStore(lays[r])
        desc == Resolve(layoutStore, t)
        opened == [lays EXCEPT ![r] = layoutStore] IN
    IF desc = NoDesc THEN [lays |-> opened, res |-> "notfound", desc |-> desc]
    ELSE IF ~HasBlob(layoutStore, desc) THEN [lays |-> opened, res |-> "error", desc |-> desc]
    ELSE [lays |-> deleteRepositoryIfEmpty(
                       [lays EXCEPT ![r] = StoreDelete(layoutStore, desc)], r),
          res |-> "deleted", desc |-> desc]

\* oci.Repository.Delete
OciDelete(r, t) ==
    /\ LET x == DeleteOf(layout, r, t) IN
        /\ layout' = x.lays
        /\ last' = [NoOp EXCEPT !.op = "Delete", !.impl = "oci", !.repo = r,
                                !.tag = t, !.desc = x.desc, !.res = x.res]
    /\ UNCHANGED <<remote, clock, nsig>>

\* ------------------------------------------------------------- signatures
\* signDigest: an ECDSA signature by key over the digest string; the nonce
\* stands for the randomness of each signing.
signDigest(key, d, nonce) == [signer |-> key, over |-> d, nonce |-> nonce]

\* verifySignature: the signature validates under pubKey for digest d.
verifySignature(pubKey, d, sig) == sig.signer = pubKey /\ sig.over = d

\* Variant: the signature manifest is stored under a tag of its own.
SignOf_TagsSignature(lay, desc, k, nonce, now, packed) ==
    LET store == newOCILayoutStore(lay)
        sig == signDigest(k, desc, nonce)
        sigDesc == Descriptor(SignatureMediaType, FromBytes(sig), <<>>)
        sm == PackManifest(SignatureArtifactType, <<sigDesc>>,
                           Descriptor(MediaTypeImageManifest, desc, <<>>), <<>>, now) IN
    [lay |-> [store EXCEPT
                !.blobs = @ @@ (sigDesc.digest :> sig)
                            @@ (DescriptorEmptyJSON.digest :> EmptyJSON)
                            @@ (FromBytes(sm) :> sm),
                !.index = Tag(@, FromBytes(sm), "sig")],
     sigm |-> FromBytes(sm)]

\* Signer.Sign on the layout lay of a tag that resolves to desc: the signature
\* blob is pushed, then the signature manifest with subject desc is packed;
\* packed is FALSE when the run ends after the push of the signature blob.
SignOf(lay, desc, k, nonce, now, packed) ==
    LET store == newOCILayoutStore(lay)
        sig == signDigest(k, desc, nonce)
        sigDesc == Descriptor(SignatureMediaType, FromBytes(sig), <<>>)
        sm == PackManifest(SignatureArtifactType, <<sigDesc>>,
                           Descriptor(MediaTypeImageManifest, desc, <<>>), <<>>, now)
        pushed == [store EXCEPT !.blobs = @ @@ (sigDesc.digest :> sig)] IN
    IF ~packed THEN [lay |-> pushed, sigm |-> NoDesc]
    ELSE [lay |-> [pushed EXCEPT
                     !.blobs = @ @@ (DescriptorEmptyJSON.digest :> EmptyJSON)
                                 @@ (FromBytes(sm) :> sm),
                     !.index = PushManifest(@, FromBytes(sm))],
          sigm |-> FromBytes(sm)]

\* Signer.Sign
Sign(r, t, k) ==
    /\ nsig < MaxSigs
    /\ LET store == newOCILayoutStore(layout[r])
           desc == Resolve(store, t)
           rec == [NoOp EXCEPT !.op = "Sign", !.repo = r, !.tag = t, !.desc = desc,
                               !.out = <<k>>] IN
        IF desc = NoDesc
        THEN /\ layout' = [layout EXCEPT ![r] = store]
             /\ last' = [rec EXCEPT !.res = "notfound"]
             /\ UNCHANGED <<remote, clock, nsig>>
        ELSE \E now \in clock..MaxTime :
             LET signed == SignOf(store, desc, k, nsig, now, TRUE) IN
             /\ layout' = [layout EXCEPT ![r] = signed.lay]
             /\ last' = [rec EXCEPT !.res = "ok", !.sigm = signed.sigm]
             /\ clock' = now
             /\ nsig' = nsig + 1
    /\ UNCHANGED remote

\* tryExtractSignature: whether the predecessor is a signature artifact (the
\* descriptor's artifact type is that of the manifest body) and its one layer.
tryExtractSignature(store, p) ==
    IF ~HasBlob(store, p) THEN [isSignature |-> FALSE, err |-> FALSE, sig |-> NoDesc]
    ELSE LET manifest == FetchManifest(store, p) IN
         IF manifest.artifactType # SignatureArtifactType
         THEN [isSignature |-> FALSE, err |-> FALSE, sig |-> NoDesc]
         ELSE IF Len(manifest.layers) = 0 \/ ~HasBlob(store, manifest.layers[1].digest)
         THEN [isSignature |-> TRUE, err |-> TRUE, sig |-> NoDesc]
         ELSE [isSignature |-> TRUE, err |-> FALSE,
               sig |-> store.blobs[manifest.layers[1].digest]]

\* Variant: only the first public key is tried.
anyKeyVerifies_FirstOnly(publicKeys, i, d, sig) ==
    i = 1 /\ Len(publicKeys) > 0 /\ verifySignature(publicKeys[1], d, sig)

\* The inner loop of Verify: the first public key that validates sig.
RECURSIVE anyKeyVerifies(_, _, _, _)
anyKeyVerifies(publicKeys, i, d, sig) ==
    IF i > Len(publicKeys) THEN FALSE
    ELSE IF verifySignature(publicKeys[i], d, sig) THEN TRUE
    ELSE anyKeyVerifies(publicKeys, i + 1, d, sig)

\* Variant: an exhausted loop reports a failed verification even when no
\* signature was found.
RECURSIVE verifyLoop_AlwaysFailed(_, _, _, _, _, _)
verifyLoop_AlwaysFailed(store, predecessors, i, publicKeys, d, foundSignature) ==
    IF i > Len(predecessors) THEN "failed"
    ELSE LET x == tryExtractSignature(store, predecessors[i]) IN
         IF ~x.isSignature \/ x.err
         THEN verifyLoop_AlwaysFailed(store, predecessors, i + 1, publicKeys, d, TRUE)
         ELSE IF anyKeyVerifies(publicKeys, 1, d, x.sig) THEN "ok"
         ELSE verifyLoop_AlwaysFailed(store, predecessors, i + 1, publicKeys, d, TRUE)

\* Variant: foundSignature is not set when a signature fails under every key.
RECURSIVE verifyLoop_ForgetFound(_, _, _, _, _, _)
verifyLoop_ForgetFound(store, predecessors, i, publicKeys, d, foundSignature) ==
    IF i > Len(predecessors)
    THEN IF foundSignature THEN "failed" ELSE "nosignature"
    ELSE LET x == tryExtractSignature(store, predecessors[i]) IN
         IF ~x.isSignature
         THEN verifyLoop_ForgetFound(store, predecessors, i + 1, publicKeys, d, foundSignature)
         ELSE IF x.err
         THEN verifyLoop_ForgetFound(store, predecessors, i + 1, publicKeys, d, TRUE)
         ELSE IF anyKeyVerifies(publicKeys, 1, d, x.sig) THEN "ok"
         ELSE verifyLoop_ForgetFound(store, predecessors, i + 1, publicKeys, d, foundSignature)

\* The outer loop of Verify over the predecessors in the order returned.
RECURSIVE verifyLoop(_, _, _, _, _, _)
verifyLoop(store, predecessors, i, publicKeys, d, foundSignature) ==
    IF i > Len(predecessors)
    THEN IF foundSignature THEN "failed" ELSE "nosignature"
    ELSE LET x == tryExtractSignature(store, predecessors[i]) IN
         IF ~x.isSignature
         THEN verifyLoop(store, predecessors, i + 1, publicKeys, d, foundSignature)
         ELSE IF x.err
         THEN verifyLoop(store, predecessors, i + 1, publicKeys, d, TRUE)
         ELSE IF anyKeyVerifies(publicKeys, 1, d, x.sig) THEN "ok"
         ELSE verifyLoop(store, predecessors, i + 1, publicKeys, d, TRUE)

\* The orders in which Store.Predecessors may list a set (map iteration).
Orders(S) ==
    {s \in [1..Cardinality(S) -> S] : \A i, j \in 1..Cardinality(S) : s[i] = s[j] => i = j}

\* The results Verify may give for manifest desc, one per order in which the
\* predecessors are listed.
verifyOutcomes(store, desc, publicKeys) ==
    {verifyLoop(store, predecessors, 1, publicKeys, desc, FALSE) :
        predecessors \in Orders(Predecessors(store, desc))}

\* Verifier.Verify
Verify_AnySignature(r, t, publicKeys) ==
    /\ LET rec == [NoOp EXCEPT !.op = "Verify", !.repo = r, !.tag = t, !.out = publicKeys] IN
        IF Len(publicKeys) = 0
        THEN /\ layout' = layout
             /\ last' = [rec EXCEPT !.res = "nokeys"]
        ELSE LET store == newOCILayoutStore(layout[r])
                 desc == Resolve(store, t)
                 sigs == {store.blobs[store.blobs[x].layers[1].digest] :
                            x \in {y \in Manifests(store) :
                                     store.blobs[y].artifactType = SignatureArtifactType}} IN
             /\ layout' = [layout EXCEPT ![r] = store]
             /\ IF desc = NoDesc
                THEN last' = [rec EXCEPT !.res = "notfound"]
                ELSE last' = [rec EXCEPT !.desc = desc,
                                !.res = IF \E s \in sigs : \E i \in 1..Len(publicKeys) :
                                              s.signer = publicKeys[i]
                                        THEN "ok" ELSE "nosignature"]
    /\ UNCHANGED <<remote, clock, nsig>>

Verify(r, t, publicKeys) ==
    /\ LET rec == [NoOp EXCEPT !.op = "Verify", !.repo = r, !.tag = t, !.out = publicKeys] IN
        IF Len(publicKeys) = 0
        THEN /\ layout' = layout
             /\ last' = [rec EXCEPT !.res = "nokeys"]
        ELSE LET store == newOCILayoutStore(layout[r])
                 desc == Resolve(store, t) IN
             /\ layout' = [layout EXCEPT ![r] = store]
             /\ IF desc = NoDesc
                THEN last' = [rec EXCEPT !.res = "notfound"]
                ELSE \E res \in verifyOutcomes(store, desc, publicKeys) :
                        last' = [rec EXCEPT !.desc = desc, !.res = res]
    /\ UNCHANGED <<remote, clock, nsig>>

\* -------------------------------------------------------------- push, pull
\* Whether the registry answers is the environment's choice, input `up`.

\* Repository.Push: copy of the tag from the layout to the registry.
Push(r, t, up) ==
    /\ LET layoutStore == newOCILayoutStore(layout[r])
           desc == Resolve(layoutStore, t)
           rec == [NoOp EXCEPT !.op = "Push", !.repo = r, !.tag = t, !.desc = desc] IN
        /\ layout' = [layout EXCEPT ![r] = layoutStore]
        /\ IF desc = NoDesc
           THEN last' = [rec EXCEPT !.res = "notfound"] /\ UNCHANGED remote
           ELSE IF ~up
           THEN last' = [rec EXCEPT !.res = "network"] /\ UNCHANGED remote
           ELSE /\ remote' = [remote EXCEPT ![r] = copy(layoutStore.blobs, remote[r], desc, t)]
                /\ last' = [rec EXCEPT !.res = "ok",
                                       !.written = copyGraph(layoutStore.blobs,
                                                       remote[r].blobs, desc,
                                                       Graph(layoutStore.blobs, desc)).written]
    /\ UNCHANGED <<clock, nsig>>

\* Repository.Pull on the layouts lays: the layouts it leaves, its result and
\* the descriptor the tag resolves to in the registry.
PullOf(lays, rem, r, t, up) ==
    LET layoutStore == newOCILayoutStore(lays[r])
        desc == Resolve(rem[r], t)
        opened == [lays EXCEPT ![r] = layoutStore] IN
    IF ~up THEN [lays |-> opened, res |-> "network", desc |-> desc, written |-> {}]
    ELSE IF desc = NoDesc
    THEN [lays |-> opened, res |-> "notfound", desc |-> desc, written |-> {}]
    ELSE [lays |-> [lays EXCEPT ![r] = copy(rem[r].blobs, layoutStore, desc, t)],
          res |-> "ok", desc |-> desc,
          written |-> copyGraph(rem[r].blobs, layoutStore.blobs, desc,
                                Graph(rem[r].blobs, desc)).written]

\* Repository.Pull: copy of the tag from the registry to the layout.
Pull(r, t, up) ==
    /\ LET x == PullOf(layout, remote, r, t, up) IN
        /\ layout' = x.lays
        /\ last' = [NoOp EXCEPT !.op = "Pull", !.repo = r, !.tag = t, !.desc = x.desc,
                                !.res = x.res, !.written = x.written]
    /\ UNCHANGED <<remote, clock, nsig>>

\* ------------------------------------------------- copies ended part-way
\* Repository.Save whose copy is cancelled after the blobs of part arrived.
SaveCancelled(r, t, f) ==
    /\ \E now \in clock..MaxTime :
        LET fs == newFileStore(r, t, f, now)
            layoutStore == newOCILayoutStore(layout[r]) IN
        \E part \in SUBSET Graph(fs.blobs, fs.root) :
            /\ clock' = now
            /\ layout' = [layout EXCEPT
                             ![r] = copyCancelled(fs.blobs, layoutStore, fs.root, part)]
            /\ last' = [NoOp EXCEPT !.op = "SaveCancelled", !.repo = r, !.tag = t,
                                    !.res = "cancelled", !.desc = fs.root, !.out = <<f>>,
                                    !.written = copyGraph(fs.blobs, layoutStore.blobs,
                                                          fs.root, part).written]
    /\ UNCHANGED <<remote, nsig>>

\* Repository.Push whose copy is cancelled after the blobs of part arrived;
\* a registry receives the manifest together with its tag, so part holds
\* successors only.
PushCancelled(r, t) ==
    /\ LET layoutStore == newOCILayoutStore(layout[r])
           desc == Resolve(layoutStore, t) IN
        /\ desc # NoDesc
        /\ layout' = [layout EXCEPT ![r] = layoutStore]
        /\ \E part \in SUBSET SuccessorBlobs(layoutStore.blobs[desc]) :
            /\ remote' = [remote EXCEPT
                             ![r] = copyCancelled(layoutStore.blobs, remote[r], desc, part)]
            /\ last' = [NoOp EXCEPT !.op = "PushCancelled", !.repo = r, !.tag = t,
                                    !.res = "cancelled", !.desc = desc,
                                    !.written = copyGraph(layoutStore.blobs,
                                                    remote[r].blobs, desc, part).written]
    /\ UNCHANGED <<clock, nsig>>

\* Repository.Pull whose copy is cancelled after the blobs of part arrived.
PullCancelled(r, t) ==
    /\ LET layoutStore == newOCILayoutStore(layout[r])
           desc == Resolve(remote[r], t) IN
        /\ desc # NoDesc
        /\ \E part \in SUBSET Graph(remote[r].blobs, desc) :
            /\ layout' = [layout EXCEPT
                             ![r] = copyCancelled(remote[r].blobs, layoutStore, desc, part)]
            /\ last' = [NoOp EXCEPT !.op = "PullCancelled", !.repo = r, !.tag = t,
                                    !.res = "cancelled", !.desc = desc,
                                    !.written = copyGraph(remote[r].blobs,
                                                    layoutStore.blobs, desc, part).written]
    /\ UNCHANGED <<remote, clock, nsig>>

\* ------------------------------------------------------- registry requests
\* What the network answers to one attempt of a request.
Outcomes == {"ok", "timeout", "refused", "status503", "status401"}
OutcomeSeqs == UNION {[1..n -> Outcomes] : n \in 0..MaxTrips}

\* retry.DefaultPolicy.MaxRetry of the client newAuthenticatedRepository sets.
DefaultMaxRetry == 5

\* retry.DefaultPredicate: a timeout of the connection and the statuses 408,
\* 429 and 5xx are retried; any other error is returned.
DefaultPredicate(outcome) == outcome \in {"timeout", "status503"}

\* retry.Transport.RoundTrip of retry.DefaultClient: the request is sent
\* again while the policy asks for it; answers[i] is the answer to attempt i,
\* and the network answers ok once answers is used up.  The number of
\* attempts made and the last answer.
RECURSIVE RoundTrip(_, _)
RoundTrip(answers, attempt) ==
    LET outcome == IF attempt + 1 <= Len(answers) THEN answers[attempt + 1] ELSE "ok" IN
    IF attempt < DefaultMaxRetry /\ DefaultPredicate(outcome)
    THEN RoundTrip(answers, attempt + 1)
    ELSE [attempts |-> attempt + 1, final |-> outcome]

\* formatCopyError: the error class by the words of the message.
formatCopyError(outcome) ==
    IF outcome = "status401" THEN "authentication"
    ELSE IF outcome \in {"refused", "timeout"} THEN "network"
    ELSE "error"

\* Repository.Push whose first request to the registry gets the answers.
PushOver(r, t, answers) ==
    /\ LET layoutStore == newOCILayoutStore(layout[r])
           desc == Resolve(layoutStore, t)
           trip == RoundTrip(answers, 0)
           rec == [NoOp EXCEPT !.op = "PushOver", !.repo = r, !.tag = t, !.desc = desc,
                               !.out = <<answers, trip.attempts>>] IN
        /\ desc # NoDesc
        /\ layout' = [layout EXCEPT ![r] = layoutStore]
        /\ IF trip.final # "ok"
           THEN last' = [rec EXCEPT !.res = formatCopyError(trip.final)]
                /\ UNCHANGED remote
           ELSE /\ remote' = [remote EXCEPT ![r] = copy(layoutStore.blobs, remote[r], desc, t)]
                /\ last' = [rec EXCEPT !.res = "ok"]
    /\ UNCHANGED <<clock, nsig>>

\* Repository.Pull whose first request to the registry gets the answers.
PullOver(r, t, answers) ==
    /\ LET trip == RoundTrip(answers, 0)
           x == PullOf(layout, remote, r, t, trip.final = "ok")
           rec == [NoOp EXCEPT !.op = "PullOver", !.repo = r, !.tag = t, !.desc = x.desc,
                               !.out = <<answers, trip.attempts>>] IN
        /\ layout' = x.lays
        /\ last' = [rec EXCEPT !.res = IF trip.final # "ok"
                                       THEN formatCopyError(trip.final) ELSE x.res]
    /\ UNCHANGED <<remote, clock, nsig>>

\* ---------------------------------------------------------------- key files
\* Permission bits a private key file can be given from outside the program
\* (0600, 0400, 0640, 0644) and process umasks (0, 022, 077).
Modes == {384, 256, 416, 420}
Umasks == {0, 18, 63}

Bit(n, i) == (n \div 2^i) % 2

\* p &^ m on the nine permission bits.
RECURSIVE AndNot(_, _, _)
AndNot(p, m, i) ==
    IF i > 8 THEN 0
    ELSE (IF Bit(p, i) = 1 /\ Bit(m, i) = 0 THEN 2^i ELSE 0) + AndNot(p, m, i + 1)

\* os.WriteFile(path, data, perm): a new file gets perm less the umask; an
\* existing file is truncated and keeps the permissions it has.
WriteFile(file, perm, umask) == IF file = NoFile THEN AndNot(perm, umask, 0) ELSE file

\* writePrivateKey: the PEM block written with mode 0600.
writePrivateKey(file, umask) == WriteFile(file, 384, umask)

\* GenerateKeyPair: refused when the private key exists and force is not
\* given; the private key is removed again when the public key cannot be
\* written.
GenerateKeyPair(name, force, umask, pubOk) ==
    /\ LET rec == [NoOp EXCEPT !.op = "GenerateKeyPair", !.out = <<name, force>>] IN
        IF ~force /\ keyfiles[name] # NoFile
        THEN /\ last' = [rec EXCEPT !.res = "exists"]
             /\ UNCHANGED keyfiles
        ELSE IF ~pubOk
        THEN /\ last' = [rec EXCEPT !.res = "error"]
             /\ keyfiles' = [keyfiles EXCEPT ![name] = NoFile]
        ELSE /\ last' = [rec EXCEPT !.res = "ok"]
             /\ keyfiles' = [keyfiles EXCEPT ![name] = writePrivateKey(@, umask)]
    /\ UNCHANGED <<layout, remote, clock, nsig>>

\* The user puts a key file into the key directory or changes its mode.
PlaceKeyFile(name, mode) ==
    /\ keyfiles' = [keyfiles EXCEPT ![name] = mode]
    /\ last' = [NoOp EXCEPT !.op = "PlaceKeyFile", !.out = <<name, mode>>]
    /\ UNCHANGED <<layout, remote, clock, nsig>>

\* LoadPrivateKey: the file must exist and grant nothing to group and others
\* (Perm()&0o077 == 0).
LoadPrivateKey(file) ==
    IF file = NoFile THEN "notfound"
    ELSE IF file % 64 # 0 THEN "insecure"
    ELSE "ok"

\* runSign: the key must exist and load; then Signer.Sign of the tag.
runSign(r, t, name) ==
    /\ nsig < MaxSigs
    /\ LET rec == [NoOp EXCEPT !.op = "runSign", !.repo = r, !.tag = t,
                               !.out = <<name>>] IN
        IF keyfiles[name] = NoFile
        THEN /\ last' = [rec EXCEPT !.res = "nokey"]
             /\ UNCHANGED <<layout, clock, nsig>>
        ELSE IF LoadPrivateKey(keyfiles[name]) # "ok"
        THEN /\ last' = [rec EXCEPT !.res = "keyerror"]
             /\ UNCHANGED <<layout, clock, nsig>>
        ELSE LET store == newOCILayoutStore(layout[r])
                 desc == Resolve(store, t) IN
             IF desc = NoDesc
             THEN /\ layout' = [layout EXCEPT ![r] = store]
                  /\ last' = [rec EXCEPT !.res = "notfound"]
                  /\ UNCHANGED <<clock, nsig>>
             ELSE \E now \in clock..MaxTime :
                  LET signed == SignOf(store, desc, name, nsig, now, TRUE) IN
                  /\ layout' = [layout EXCEPT ![r] = signed.lay]
                  /\ last' = [rec EXCEPT !.res = "ok", !.desc = desc,
                                         !.sigm = signed.sigm]
                  /\ clock' = now
                  /\ nsig' = nsig + 1
    /\ UNCHANGED <<remote, keyfiles>>

\* ------------------------------------------------------- list, corruption
\* Registry.List on the layouts lays, of which those in bad have an
\* index.json that cannot be read or parsed: the walk over baseDir stops at
\* the first layout whose readIndex fails (oci.New or the manifest blob's
\* stat), otherwise one entry per tagged manifest.
ListOf(lays, bad) ==
    IF \E r \in Repos :
           /\ lays[r].exists
           /\ \/ r \in bad
              \/ \E e \in Tagged(lays[r].index) : ~HasBlob(lays[r], e.digest)
    THEN [res |-> "error", out |-> {}]
    ELSE [res |-> "ok",
          out |-> UNION {{<<r, e.ref>> : e \in Tagged(lays[r].index)} :
                             r \in {x \in Repos : lays[x].exists}}]

\* Registry.List
List ==
    /\ last' = [NoOp EXCEPT !.op = "List", !.res = ListOf(layout, corrupt).res,
                            !.out = ListOf(layout, corrupt).out]
    /\ UNCHANGED <<layout, remote, clock, nsig>>

\* The index.json of an existing layout is damaged from outside the program.
CorruptIndex(r) ==
    /\ layout[r].exists
    /\ r \notin corrupt
    /\ corrupt' = corrupt \cup {r}
    /\ last' = [NoOp EXCEPT !.op = "CorruptIndex", !.repo = r]
    /\ UNCHANGED <<layout, remote, clock, nsig>>

\* newOCILayoutStore of a command on repository r: oci.New fails on an
\* index.json it cannot parse and the command ends; otherwise the command A runs.
Opened(r, t, op, A) ==
    IF r \in corrupt
    THEN /\ last' = [NoOp EXCEPT !.op = op, !.repo = r, !.tag = t, !.res = "corrupt"]
         /\ UNCHANGED <<layout, remote, clock, nsig>>
    ELSE A

\* ------------------------------------------------------ concurrent saves
\* newFileStore of invocation p: the working directory is removed and made
\* anew, the file is added by its path, and the packed manifest, whose
\* descriptor is titled Name(), is written to the working directory under
\* that name.  The invocations run on different repositories.
SaveStage(p, r, t, f) ==
    /\ work.pc[p] = Idle
    /\ \A q \in Procs \ {p} : work.pc[q] # Idle => work.pc[q].repo # r
    /\ \E now \in clock..MaxTime :
        LET fs == newFileStore(r, t, f, now) IN
        /\ clock' = now
        /\ work' = [files |-> (r :> fs.blobs[fs.root]),
                    pc |-> [work.pc EXCEPT ![p] = [at |-> "staged", repo |-> r, tag |-> t,
                                                   file |-> f, now |-> now]]]
        /\ last' = [NoOp EXCEPT !.op = "SaveStage", !.repo = r, !.tag = t,
                                !.desc = fs.root, !.out = <<f, p>>]
    /\ UNCHANGED <<layout, remote, nsig>>

\* The copy of invocation p from its file store into the layout: the
\* manifest is read back from the working directory and fails the copy when
\* it is not there.
SaveCopy(p) ==
    /\ work.pc[p] # Idle
    /\ LET c == work.pc[p]
           fs == newFileStore(c.repo, c.tag, c.file, c.now)
           rec == [NoOp EXCEPT !.op = "SaveCopy", !.repo = c.repo, !.tag = c.tag,
                               !.desc = fs.root, !.out = <<c.file, p>>] IN
        /\ IF c.repo \in DOMAIN work.files /\ work.files[c.repo] = fs.blobs[fs.root]
           THEN /\ layout' = SaveOf(layout, c.repo, c.tag, c.file, c.now)
                /\ last' = [rec EXCEPT !.res = "ok"]
           ELSE /\ layout' = [layout EXCEPT ![c.repo] = newOCILayoutStore(@)]
                /\ last' = [rec EXCEPT !.res = "error"]
        /\ work' = [work EXCEPT !.pc[p] = Idle]
    /\ UNCHANGED <<remote, clock, nsig>>

\* ------------------------------------------------------------ pull command
\* Repository.Exists: whether the tag resolves in the local layout.
Exists(lay, t) == Resolve(lay, t) # NoDesc

\* deletePulledData: the pulled tag is deleted; the original error is returned
\* whether or not the deletion succeeds.
deletePulledData_Keep(lays, r, t) == lays

deletePulledData(lays, r, t) == DeleteOf(lays, r, t).lays

\* handleVerifyFailure: nothing more is done when the tag existed before the
\* pull; otherwise the pulled data is deleted.
handleVerifyFailure(lays, r, t, existedBefore) ==
    IF existedBefore THEN lays ELSE deletePulledData(lays, r, t)

\* runPull: Exists, Pull, then unless --skip-verify the verification with the
\* public keys of the key directory (publicKeys; empty when none is imported).
runPull(r, t, up, skipVerify, publicKeys) ==
    /\ LET existedBefore == Exists(newOCILayoutStore(layout[r]), t)
           x == PullOf(layout, remote, r, t, up)
           rec == [NoOp EXCEPT !.op = "runPull", !.repo = r, !.tag = t, !.desc = x.desc,
                               !.out = publicKeys] IN
        IF x.res # "ok"
        THEN layout' = x.lays /\ last' = [rec EXCEPT !.res = x.res]
        ELSE IF skipVerify
        THEN layout' = x.lays /\ last' = [rec EXCEPT !.res = "ok"]
        ELSE IF Len(publicKeys) = 0
        THEN /\ layout' = handleVerifyFailure(x.lays, r, t, existedBefore)
             /\ last' = [rec EXCEPT !.res = "nokeys"]
        ELSE \E v \in verifyOutcomes(x.lays[r], Resolve(x.lays[r], t), publicKeys) :
             IF v = "ok"
             THEN layout' = x.lays /\ last' = [rec EXCEPT !.res = "ok"]
             ELSE /\ layout' = handleVerifyFailure(x.lays, r, t, existedBefore)
                  /\ last' = [rec EXCEPT !.res = v]
    /\ UNCHANGED <<remote, clock, nsig>>

\* ------------------------------------------------------------ pack command
\* The state of the signing key and of the signing, as pack finds it: the
\* key file is missing; it is there but does not load (permissions, content);
\* it loads and signing fails after the signature blob is pushed; it loads and
\* signing succeeds.
KeyStates == {"missing", "unreadable", "signerror", "sign"}

\* Variant: the signing key is not looked for before saving.
PrivateKeyExists_Unchecked(keyState) == TRUE

\* signature.PrivateKeyExists
PrivateKeyExists(keyState) == keyState # "missing"

\* Variant: the packed data is left in place.
deletePackedData_Keep(lays, r, t) == lays

\* deletePackedData: the just-saved tag is deleted; the original error is
\* returned whether or not the deletion succeeds.
deletePackedData(lays, r, t) == DeleteOf(lays, r, t).lays

\* runPack (the manifest file being valid): key check unless --skip-sign,
\* Save, then unless --skip-sign NewSignerFromKeyDir and Sign, with
\* deletePackedData when either fails.
runPack(r, t, f, skipSign, k, keyState) ==
    /\ nsig < MaxSigs
    /\ LET rec == [NoOp EXCEPT !.op = "runPack", !.repo = r, !.tag = t,
                               !.out = <<f, IF skipSign THEN "skip" ELSE keyState>>] IN
        IF ~skipSign /\ ~PrivateKeyExists(keyState)
        THEN /\ last' = [rec EXCEPT !.res = "nokey"]
             /\ UNCHANGED <<layout, clock, nsig>>
        ELSE \E now \in clock..MaxTime :
             LET saved == SaveOf(layout, r, t, f, now)
                 desc == Resolve(saved[r], t) IN
             /\ clock' = now
             /\ IF skipSign
                THEN /\ layout' = saved
                     /\ last' = [rec EXCEPT !.res = "ok", !.desc = desc]
                     /\ UNCHANGED nsig
                ELSE IF keyState \in {"missing", "unreadable"}
                THEN /\ layout' = deletePackedData(saved, r, t)
                     /\ last' = [rec EXCEPT !.res = "keyerror", !.desc = desc]
                     /\ UNCHANGED nsig
                ELSE LET signed == SignOf(saved[r], desc, k, nsig, now, keyState = "sign") IN
                     /\ nsig' = nsig + 1
                     /\ IF keyState = "sign"
                        THEN /\ layout' = [saved EXCEPT ![r] = signed.lay]
                             /\ last' = [rec EXCEPT !.res = "ok", !.desc = desc,
                                                     !.sigm = signed.sigm]
                        ELSE /\ layout' = deletePackedData(
                                              [saved EXCEPT ![r] = signed.lay], r, t)
                             /\ last' = [rec EXCEPT !.res = "signerror", !.desc = desc]
    /\ UNCHANGED remote

\* -------------------------------------------------------------- references
\* Reference strings are sequences of characters.
Chars == {"a", "A", ".", ":", "@"}
Strings == UNION {[1..n -> Chars] : n \in 0..MaxLen}
Lower == {"a", "c", "l", "o"}
Word == Lower \cup {"A"}

DefaultRegistry == <<"l", "o", "c", "a", "l">>

\* strings.Contains(s, c) for a one-character c.
Contains(s, c) == \E i \in DOMAIN s : s[i] = c

\* strings.Index(s, c): the first position of c in s, 0 when there is none.
Index(s, c) ==
    IF Contains(s, c)
    THEN CHOOSE i \in DOMAIN s : s[i] = c /\ \A j \in 1..(i - 1) : s[j] # c
    ELSE 0

\* Variant: the default registry is prepended to every tag.
normalizeTag_Always(tag) == DefaultRegistry \o <<"/">> \o tag

\* normalizeTag: the default registry is prepended when the tag has no slash.
normalizeTag(tag) ==
    IF ~Contains(tag, "/") THEN DefaultRegistry \o <<"/">> \o tag ELSE tag

\* Reference.ValidateRegistry on host names without port or user information.
ValidateRegistry(reg) == \A i \in DOMAIN reg : reg[i] \in Word \cup {"."}

\* Reference.ValidateRepository: path components of lower-case runs joined
\* by single separators.
ValidateRepository(repo) ==
    /\ Len(repo) > 0
    /\ \A i \in DOMAIN repo : repo[i] \in Lower \cup {".", "/"}
    /\ repo[1] \in Lower
    /\ repo[Len(repo)] \in Lower
    /\ \A i \in 1..(Len(repo) - 1) : repo[i] \in Lower \/ repo[i + 1] \in Lower

\* Reference.ValidateReferenceAsTag: a word character, then word characters,
\* dots and dashes, 128 characters at most.
ValidateReferenceAsTag(ref) ==
    /\ Len(ref) \in 1..128
    /\ ref[1] \in Word
    /\ \A i \in DOMAIN ref : ref[i] \in Word \cup {".", "-"}

\* Reference.ValidateReferenceAsDigest: an algorithm, a colon and at least 32
\* characters of encoded hash.
ValidateReferenceAsDigest(ref) ==
    LET c == Index(ref, ":") IN
    /\ c > 1
    /\ Len(ref) - c >= 32
    /\ \A i \in 1..(c - 1) : ref[i] \in Lower
    /\ \A i \in (c + 1)..Len(ref) : ref[i] \in Word

InvalidReference == [err |-> TRUE, Registry |-> <<>>, Repository |-> <<>>,
                     Reference |-> <<>>]

\* registry.ParseReference: the registry up to the first slash; of the rest,
\* a digest after "@" (a tag before it is dropped), else a tag after the
\* first colon, else no reference; then the validations.
ParseReference(artifact) ==
    LET slash == Index(artifact, "/")
        reg == SubSeq(artifact, 1, slash - 1)
        path == SubSeq(artifact, slash + 1, Len(artifact))
        at == Index(path, "@")
        colon == Index(path, ":")
        beforeAt == SubSeq(path, 1, at - 1)
        isTag == at = 0 /\ colon # 0
        repository == IF at # 0
                      THEN IF Index(beforeAt, ":") # 0
                           THEN SubSeq(beforeAt, 1, Index(beforeAt, ":") - 1)
                           ELSE beforeAt
                      ELSE IF colon # 0 THEN SubSeq(path, 1, colon - 1)
                      ELSE path
        reference == IF at # 0 THEN SubSeq(path, at + 1, Len(path))
                     ELSE IF colon # 0 THEN SubSeq(path, colon + 1, Len(path))
                     ELSE <<>> IN
    IF slash = 0 THEN InvalidReference
    ELSE IF ~ValidateRegistry(reg) \/ ~ValidateRepository(repository)
    THEN InvalidReference
    ELSE IF Len(reference) > 0
            /\ ~(IF isTag THEN ValidateReferenceAsTag(reference)
                 ELSE ValidateReferenceAsDigest(reference))
    THEN InvalidReference
    ELSE [err |-> FALSE, Registry |-> reg, Repository |-> repository,
          Reference |-> reference]

\* parseReference: the normalized tag parsed as a reference.
parseReference(tag) == ParseReference(normalizeTag(tag))

\* NewRepository(tag): the repository of the parsed reference, or the error.
NewRepository(tag) == parseReference(tag)

\* Repository.Name(): registry and repository joined by a slash.
Name(ref) ==
    IF Len(ref.Registry) > 0 /\ Len(ref.Repository) > 0
    THEN ref.Registry \o <<"/">> \o ref.Repository
    ELSE IF Len(ref.Registry) > 0 THEN ref.Registry
    ELSE ref.Repository

\* Reference.ReferenceOrDefault: "latest" when the reference is empty.
ReferenceOrDefault(ref) ==
    IF Len(ref.Reference) = 0 THEN <<"l", "a", "t", "e", "s", "t">> ELSE ref.Reference

\* The command-line arguments name:tag and local/name:tag, not yet parsed.
InitArgs ==
    /\ layout = [r \in Repos |-> NoLayout]
    /\ remote = [r \in Repos |-> NoLayout]
    /\ clock = 0
    /\ nsig = 0
    /\ ops = 0
    /\ keyfiles = [k \in Keys |-> NoFile]
    /\ corrupt = {}
    /\ work = NoWork
    /\ \E name \in Strings, tag \in Strings :
           last = [NoOp EXCEPT !.op = "args", !.out = <<name, tag>>]

\* NewRepository on both forms of the argument.
NewRepositoryBothForms ==
    /\ last.op = "args"
    /\ LET name == last.out[1]
           tag == last.out[2]
           short == name \o <<":">> \o tag
           long == DefaultRegistry \o <<"/">> \o short IN
        last' = [NoOp EXCEPT !.op = "NewRepository",
                             !.out = <<name, tag, NewRepository(short),
                                       NewRepository(long)>>]
    /\ UNCHANGED <<layout, remote, clock, nsig, ops, keyfiles, corrupt, work>>

\* ------------------------------------------------------------------- list
\* Repository arguments of the list round trip: a name given bare or with
\* the default registry in front.
RepoChars == {"a", ".", "/"}
RepoStrings == UNION {[1..n -> RepoChars] : n \in 0..MaxNameLen}
ArgForms == {"bare", "prefixed"}
ArgTag == <<"A">>

\* strings.TrimPrefix(s, p).
TrimPrefix(s, p) ==
    IF Len(p) <= Len(s) /\ SubSeq(s, 1, Len(p)) = p
    THEN SubSeq(s, Len(p) + 1, Len(s))
    ELSE s

\* getRepoName: the layout directory relative to baseDir, which is Name(),
\* with the default registry prefix stripped for display.
getRepoName(indexDir) == TrimPrefix(indexDir, DefaultRegistry \o <<"/">>)

\* The argument of a command, not yet parsed.
InitList ==
    /\ layout = [r \in Repos |-> NoLayout]
    /\ remote = [r \in Repos |-> NoLayout]
    /\ clock = 0
    /\ nsig = 0
    /\ ops = 0
    /\ keyfiles = [k \in Keys |-> NoFile]
    /\ corrupt = {}
    /\ work = NoWork
    /\ \E name \in RepoStrings, form \in ArgForms :
           last = [NoOp EXCEPT !.op = "args", !.out = <<name, form>>]

\* The repository of the argument, the name list displays for its layout
\* directory, and the repository of the displayed name given back with the tag.
ListedNameGivenBack ==
    /\ last.op = "args"
    /\ LET name == last.out[1]
           arg == IF last.out[2] = "bare" THEN name
                  ELSE DefaultRegistry \o <<"/">> \o name
           stored == NewRepository(arg \o <<":">> \o ArgTag)
           shown == IF stored.err THEN <<>> ELSE getRepoName(Name(stored))
           back == NewRepository(shown \o <<":">> \o ArgTag) IN
        last' = [NoOp EXCEPT !.op = "List", !.out = <<name, last.out[2], stored, shown, back>>]
    /\ UNCHANGED <<layout, remote, clock, nsig, ops, keyfiles, corrupt, work>>

\* ------------------------------------------------------------ specification
\* One command per step, up to the bound on the number of commands.
Step(A) == ops < MaxOps /\ A /\ ops' = ops + 1 /\ UNCHANGED <<keyfiles, corrupt, work>>

Next ==
    \/ \E r \in Repos, t \in Tags, f \in Files : Step(Save(r, t, f))
    \/ \E r \in Repos, t \in Tags : Step(Dump(r, t))
    \/ \E r \in Repos, t \in Tags : Step(Path(r, t))
    \/ \E r \in Repos, t \in Tags, dr \in Repos, dt \in Tags : Step(Copy(r, t, dr, dt))
    \/ \E r \in Repos, t \in Tags : Step(RepositoryDelete(r, t))
    \/ \E r \in Repos, t \in Tags : Step(OciDelete(r, t))
    \/ \E r \in Repos, t \in Tags, k \in Keys : Step(Sign(r, t, k))
    \/ \E r \in Repos, t \in Tags, ks \in KeyLists : Step(Verify(r, t, ks))
    \/ \E r \in Repos, t \in Tags, up \in BOOLEAN : Step(Push(r, t, up))
    \/ \E r \in Repos, t \in Tags, up \in BOOLEAN : Step(Pull(r, t, up))

Spec == Init /\ [][Next]_vars

\* The signature life cycle of one repository, explored deeper.
SigRepo == <<"localhost:5000", "app">>

StepSig(A) == ops < MaxSigOps /\ A /\ ops' = ops + 1 /\ UNCHANGED <<keyfiles, corrupt, work>>

NextSig ==
    \/ \E t \in Tags, f \in Files : StepSig(Save(SigRepo, t, f))
    \/ \E t \in Tags, k \in Keys : StepSig(Sign(SigRepo, t, k))
    \/ \E t \in Tags, ks \in KeyLists : StepSig(Verify(SigRepo, t, ks))
    \/ \E t \in Tags : StepSig(OciDelete(SigRepo, t))

SpecSig == Init /\ [][NextSig]_vars

\* The pull command against one repository of a registry.
StepPull(A) == ops < MaxPullOps /\ A /\ ops' = ops + 1 /\ UNCHANGED <<keyfiles, corrupt, work>>

NextPull ==
    \/ \E t \in Tags, f \in Files : StepPull(Save(SigRepo, t, f))
    \/ \E t \in Tags, k \in Keys : StepPull(Sign(SigRepo, t, k))
    \/ \E t \in Tags, up \in BOOLEAN : StepPull(Push(SigRepo, t, up))
    \/ \E t \in Tags, up, skipVerify \in BOOLEAN, ks \in KeyLists :
            StepPull(runPull(SigRepo, t, up, skipVerify, ks))

SpecPull == Init /\ [][NextPull]_vars

\* The pack command against one repository.
StepPack(A) == ops < MaxPackOps /\ A /\ ops' = ops + 1 /\ UNCHANGED <<keyfiles, corrupt, work>>

NextPack ==
    \/ \E t \in Tags, f \in Files, skipSign \in BOOLEAN, k \in Keys, keyState \in KeyStates :
            StepPack(runPack(SigRepo, t, f, skipSign, k, keyState))
    \/ \E t \in Tags : StepPack(OciDelete(SigRepo, t))

SpecPack == Init /\ [][NextPack]_vars

\* Save, push and pull of one repository, complete or ended part-way.
StepCopy(A) == ops < MaxCopyOps /\ A /\ ops' = ops + 1 /\ UNCHANGED <<keyfiles, corrupt, work>>

NextCopy ==
    \/ \E t \in Tags, f \in Files : StepCopy(Save(SigRepo, t, f))
    \/ \E t \in Tags, f \in Files : StepCopy(SaveCancelled(SigRepo, t, f))
    \/ \E t \in Tags : StepCopy(Push(SigRepo, t, TRUE))
    \/ \E t \in Tags : StepCopy(PushCancelled(SigRepo, t))
    \/ \E t \in Tags : StepCopy(Pull(SigRepo, t, TRUE))
    \/ \E t \in Tags : StepCopy(PullCancelled(SigRepo, t))
    \/ \E t \in Tags : StepCopy(OciDelete(SigRepo, t))

SpecCopy == Init /\ [][NextCopy]_vars

\* The parsing of references given in both forms.
NextArgs == NewRepositoryBothForms

SpecArgs == InitArgs /\ [][NextArgs]_vars

\* The names list displays, given back as references.
NextList == ListedNameGivenBack

SpecList == InitList /\ [][NextList]_vars

\* Pushes and pulls of one repository over a network that fails.
StepNet(A) == ops < MaxNetOps /\ A /\ ops' = ops + 1 /\ UNCHANGED <<keyfiles, corrupt, work>>

NextNet ==
    \/ \E t \in Tags, f \in Files : StepNet(Save(SigRepo, t, f))
    \/ \E t \in Tags, answers \in OutcomeSeqs : StepNet(PushOver(SigRepo, t, answers))
    \/ \E t \in Tags, answers \in OutcomeSeqs : StepNet(PullOver(SigRepo, t, answers))

SpecNet == Init /\ [][NextNet]_vars

\* Key generation, key files changed from outside, and signing.
StepKey(A) == ops < MaxKeyOps /\ A /\ ops' = ops + 1 /\ UNCHANGED <<corrupt, work>>

NextKey ==
    \/ \E t \in Tags, f \in Files : StepKey(Save(SigRepo, t, f) /\ UNCHANGED keyfiles)
    \/ \E name \in Keys, force \in BOOLEAN, umask \in Umasks, pubOk \in BOOLEAN :
            StepKey(GenerateKeyPair(name, force, umask, pubOk))
    \/ \E name \in Keys, mode \in Modes : StepKey(PlaceKeyFile(name, mode))
    \/ \E t \in Tags, name \in Keys : StepKey(runSign(SigRepo, t, name))

SpecKey == Init /\ [][NextKey]_vars

\* Commands on two repositories of which the index of one gets damaged.
StepCorrupt(A) == ops < MaxCorruptOps /\ A /\ ops' = ops + 1 /\ UNCHANGED <<keyfiles, work>>

NextCorrupt ==
    \/ \E r \in Repos, t \in Tags, f \in Files :
            StepCorrupt(Opened(r, t, "Save", Save(r, t, f)) /\ UNCHANGED corrupt)
    \/ \E r \in Repos, t \in Tags :
            StepCorrupt(Opened(r, t, "Dump", Dump(r, t)) /\ UNCHANGED corrupt)
    \/ \E r \in Repos : StepCorrupt(CorruptIndex(r))
    \/ StepCorrupt(List /\ UNCHANGED corrupt)

SpecCorrupt == Init /\ [][NextCorrupt]_vars

\* Two invocations of save on different repositories, interleaved.
StepConc(A) == ops < MaxConcOps /\ A /\ ops' = ops + 1 /\ UNCHANGED <<keyfiles, corrupt>>

NextConc ==
    \/ \E p \in Procs, r \in Repos, t \in Tags, f \in Files : StepConc(SaveStage(p, r, t, f))
    \/ \E p \in Procs : StepConc(SaveCopy(p))

SpecConc == Init /\ [][NextConc]_vars

\* Saves and deletes, of which some stop part-way.
StepDel(A) == ops < MaxDelOps /\ A /\ ops' = ops + 1 /\ UNCHANGED <<keyfiles, corrupt, work>>

NextDel ==
    \/ \E r \in Repos, t \in Tags, f \in Files : StepDel(Save(r, t, f))
    \/ \E r \in Repos, t \in Tags : StepDel(RepositoryDelete(r, t))
    \/ \E r \in Repos, t \in Tags, finished \in BOOLEAN :
            StepDel(RepositoryDeleteStopped(r, t, finished))

SpecDel == Init /\ [][NextDel]_vars

\* ------------------------------------------------------------------ claims
Deleted(l) == l.op = "Delete" /\ l.res = "deleted"

\* What the entries of an index reference: their manifests, layers and configs.
ReferencedByIndex(lay) ==
    Digests(lay.index)
    \cup UNION {SuccessorBlobs(lay.blobs[d]) : d \in Manifests(lay)}

\* C1: after a Delete, every tag that remains in the repository still has its
\* manifest, layer and config blobs on disk and dumps the content it dumped
\* before, also when it shares a blob with the deleted tag.
C1_SharedBlobsKept ==
    [][Deleted(last') =>
        LET before == layout[last'.repo]
            after == layout'[last'.repo] IN
        \A t2 \in Tags :
            Resolve(after, t2) # NoDesc =>
                /\ HasBlob(after, Resolve(after, t2))
                /\ SuccessorBlobs(after.blobs[Resolve(after, t2)]) \subseteq DOMAIN after.blobs
                /\ DumpOf(after, t2).res = "ok"
                /\ DumpOf(after, t2) = DumpOf(before, t2)]_vars

C1_Witness ==
    /\ Deleted(last)
    /\ last.impl = "repository"
    /\ \E t2 \in Tags :
        LET lay == layout[last.repo]
            d2 == Resolve(lay, t2) IN
        /\ d2 # NoDesc
        /\ d2 # last.desc
        /\ LayerDigests(last.desc.sha256) \cap LayerDigests(lay.blobs[d2]) # {}

\* C2: after a Delete, the deleted manifest's blob and each of its layer blobs
\* that no remaining index entry references are not on disk.
C2_OrphansRemoved ==
    [][Deleted(last') =>
        LET before == layout[last'.repo]
            after == layout'[last'.repo]
            m == before.blobs[last'.desc] IN
        \A b \in {last'.desc} \cup LayerDigests(m) :
            b \notin ReferencedByIndex(after) => ~HasBlob(after, b)]_vars

C2_Witness ==
    /\ Deleted(last)
    /\ last.impl = "repository"
    /\ layout[last.repo].exists
    /\ Tagged(layout[last.repo].index) # {}
    /\ ~HasBlob(layout[last.repo], last.desc)
    /\ \E b \in LayerDigests(last.desc.sha256) : ~HasBlob(layout[last.repo], b)

\* C3: Delete(t) removes tag t only: every other tag of the repository resolves
\* to the same manifest and dumps the same content afterwards.
C3_TagGranularity ==
    [][Deleted(last') =>
        LET before == layout[last'.repo]
            after == layout'[last'.repo] IN
        /\ Resolve(after, last'.tag) = NoDesc
        /\ \A t2 \in Tags \ {last'.tag} :
            /\ Resolve(after, t2) = Resolve(before, t2)
            /\ DumpOf(after, t2) = DumpOf(before, t2)]_vars

\* C4: a Delete after which the repository has no tag left leaves no
\* repository directory.
C4_LastTagRemovesDirectory ==
    [][(Deleted(last') /\ Tagged(layout'[last'.repo].index) = {})
        => ~layout'[last'.repo].exists]_vars

\* C5: Delete never fails; on a tag that does not resolve it reports not found
\* and leaves the tags and blobs of every repository as they were; a second
\* Delete of the same tag reports not found.
C5_DeleteIdempotent ==
    [][last'.op = "Delete" =>
        /\ last'.res \in {"deleted", "notfound"}
        /\ Resolve(layout[last'.repo], last'.tag) = NoDesc =>
            /\ last'.res = "notfound"
            /\ \A x \in Repos : /\ layout'[x].index = layout[x].index
                                /\ layout'[x].blobs = layout[x].blobs
        /\ (last.op = "Delete" /\ last.repo = last'.repo /\ last.tag = last'.tag)
            => last'.res = "notfound"]_vars

C5_Witness ==
    /\ last.op = "Delete"
    /\ last.impl = "oci"
    /\ last.res = "notfound"
    /\ Tagged(layout[last.repo].index) # {}

\* The manifests a tag of the repository named before it was given another.
Retagged(lay, r, t) ==
    {d \in Manifests(lay) :
        /\ d # Resolve(lay, t)
        /\ lay.blobs[d].artifactType = artifactType
        /\ lay.blobs[d].layers[1].title = <<r, t>>}

\* C6: right after Save(f) under a tag, the tag dumps exactly f, also when the
\* tag held other content before; a Dump that follows the Save returns f.
C6_RoundTrip ==
    [][/\ last'.op = "Save" =>
            DumpOf(layout'[last'.repo], last'.tag) = [res |-> "ok", out |-> last'.out]
       /\ (last.op = "Save" /\ last'.op = "Dump"
           /\ last'.repo = last.repo /\ last'.tag = last.tag)
            => (last'.res = "ok" /\ last'.out = last.out)]_vars

C6_Witness ==
    /\ last.op = "Dump"
    /\ last.res = "ok"
    /\ \E d \in Retagged(layout[last.repo], last.repo, last.tag) :
        layout[last.repo].blobs[layout[last.repo].blobs[d].layers[1].digest].file
            # last.out[1]

\* C7: two tags of one repository have the same blob path exactly when they
\* dump the same bytes, and the file at that path holds those bytes.
C7_ContentAddressing ==
    \A r \in Repos : \A t1, t2 \in Tags :
        LET lay == layout[r]
            d1 == DumpOf(lay, t1)
            d2 == DumpOf(lay, t2)
            p1 == PathOf(r, lay, t1)
            p2 == PathOf(r, lay, t2) IN
        (d1.res = "ok" /\ d2.res = "ok") =>
            /\ p1.res = "ok" /\ p2.res = "ok"
            /\ (d1.out = d2.out) <=> (p1.out = p2.out)
            /\ HasBlob(lay, p1.out[3])
            /\ lay.blobs[p1.out[3]] = FileBytes(d1.out[1])

C7_Witness ==
    /\ last.op = "Path"
    /\ last.res = "ok"
    /\ \E t2 \in Tags \ {last.tag} :
        /\ PathOf(last.repo, layout[last.repo], t2) = [res |-> "ok", out |-> last.out]
        /\ Resolve(layout[last.repo], t2) # last.desc

\* C8: in every repository's index at most one entry carries a given tag name.
C8_OneEntryPerTag ==
    \A r \in Repos : \A e1, e2 \in layout[r].index :
        (e1.ref # "" /\ e1.ref = e2.ref) => e1 = e2

C8_Witness ==
    /\ last.op = "Save"
    /\ Resolve(layout[last.repo], last.tag) = last.desc
    /\ Retagged(layout[last.repo], last.repo, last.tag) # {}

\* C9: a command changes the tags and blobs of no repository other than the
\* one it names (for a copy, its source and destination).
C9_RepositoriesIndependent ==
    [][\A x \in Repos :
        (x # last'.repo /\ x # last'.dst) =>
            /\ layout'[x].index = layout[x].index
            /\ layout'[x].blobs = layout[x].blobs]_vars

\* The signatures discovered for manifest d: the layer of every signature
\* manifest whose subject is d.
SignaturesOf(lay, d) ==
    {lay.blobs[lay.blobs[p].layers[1].digest] :
        p \in {x \in Predecessors(lay, d) :
                 lay.blobs[x].artifactType = SignatureArtifactType}}

\* C10: Verify succeeds exactly when some discovered signature of the tag's
\* manifest validates under some supplied public key, whatever the order of
\* the keys and of the signatures.
C10_VerifyAnyKeyAnySignature ==
    last.op = "Verify" =>
        LET lay == layout[last.repo]
            d == Resolve(lay, last.tag) IN
        (last.res = "ok") <=>
            /\ d # NoDesc
            /\ \E sig \in SignaturesOf(lay, d) : \E i \in DOMAIN last.out :
                verifySignature(last.out[i], d, sig)

C10_Witness ==
    /\ last.op = "Verify"
    /\ last.res = "ok"
    /\ Len(last.out) = 2
    /\ LET sigs == SignaturesOf(layout[last.repo], last.desc) IN
        /\ Cardinality(sigs) = 2
        /\ \A sig \in sigs : ~verifySignature(last.out[1], last.desc, sig)

\* The signature manifests stored for manifest d: its predecessors of the
\* signature artifact type.
SignatureManifests(lay, d) ==
    {x \in Predecessors(lay, d) : lay.blobs[x].artifactType = SignatureArtifactType}

C12_WrongKeysIsVerificationFailed ==
    (last.op = "Verify" /\ Len(last.out) > 0 /\ last.desc # NoDesc
        /\ SignatureManifests(layout[last.repo], last.desc) # {})
    => /\ last.res # "nosignature"
       /\ (\A sig \in SignaturesOf(layout[last.repo], last.desc) :
             \A i \in DOMAIN last.out : ~verifySignature(last.out[i], last.desc, sig))
          => last.res = "failed"

C12_Witness ==
    /\ last.op = "Verify"
    /\ last.res = "failed"
    /\ Len(last.out) = 1
    /\ Cardinality(SignaturesOf(layout[last.repo], last.desc)) = 2

\* The pull command reported a failed verification of the pulled tag.
VerifyFailedAfterPull(l) == l.op = "runPull" /\ l.res \in {"nokeys", "nosignature", "failed"}

\* C13: when verification fails after a pull, the tag resolves locally to what
\* it resolved to before the pull; a tag that did not exist before does not
\* dump afterwards.
C13_PullRollback ==
    [][VerifyFailedAfterPull(last') =>
        LET before == newOCILayoutStore(layout[last'.repo])
            after == layout'[last'.repo] IN
        /\ Resolve(after, last'.tag) = Resolve(before, last'.tag)
        /\ ~Exists(before, last'.tag) => DumpOf(after, last'.tag).res # "ok"]_vars

\* C14: when pack ends with a signing error (the signer does not load, or
\* Sign fails) after Save wrote the manifest, the tag does not resolve.
C14_SignFailureDeletesTag ==
    [][(last'.op = "runPack" /\ last'.res \in {"keyerror", "signerror"})
        => /\ Resolve(layout'[last'.repo], last'.tag) = NoDesc
           /\ DumpOf(layout'[last'.repo], last'.tag).res # "ok"]_vars

C14_Witness ==
    /\ last.op = "runPack"
    /\ last.res = "signerror"
    /\ layout[last.repo].exists
    /\ Tagged(layout[last.repo].index) # {}

\* C15: when pack without --skip-sign finds no signing key, it fails and
\* leaves every repository as it was: no tag is created and an existing tag
\* keeps its manifest.
C15_MissingKeyChangesNothing ==
    [][(last'.op = "runPack" /\ last'.out[2] = "missing")
        => last'.res = "nokey" /\ layout' = layout]_vars

C15_Witness ==
    /\ last.op = "runPack"
    /\ last.res = "nokey"
    /\ Resolve(layout[last.repo], last.tag) # NoDesc

\* C16: after a tag whose manifest carries a signature by key k is pushed,
\* deleting the tag locally and pulling it again gives a manifest that
\* verifies under k and dumps the content it dumped before the push.
C16_SignatureFollowsManifest ==
    [][(last'.op = "Push" /\ last'.res = "ok") =>
        LET r == last'.repo
            t == last'.tag
            d == last'.desc
            deleted == DeleteOf(layout', r, t).lays
            pulled == PullOf(deleted, remote', r, t, TRUE).lays[r] IN
        \A k \in Keys :
            (\E sig \in SignaturesOf(layout[r], d) : verifySignature(k, d, sig))
            => /\ verifyOutcomes(pulled, Resolve(pulled, t), <<k>>) = {"ok"}
               /\ DumpOf(pulled, t) = DumpOf(layout[r], t)]_vars


\* ------------------------------------------------------------- Copy (cp)
\* C17 as stated: whenever the destination tag resolves before Copy, Copy
\* fails with the 'already exists' error and the destination tag resolves to
\* the manifest it resolved to before the call.
C17_ExistingDestinationIsAlreadyExists ==
    [][(last'.op = "Copy" /\ Resolve(layout[last'.dst], last'.dtag) # NoDesc)
        => /\ last'.res = "exists"
           /\ Resolve(layout'[last'.dst], last'.dtag)
                  = Resolve(layout[last'.dst], last'.dtag)]_vars

\* C17 amended: whenever the destination tag resolves before Copy, Copy fails
\* and the destination tag resolves to the manifest it resolved to before the
\* call; the failure is 'already exists' when the source tag resolves and
\* 'source tag not found' when it does not.
C17_CopyRefusesOverwrite ==
    [][(last'.op = "Copy" /\ Resolve(layout[last'.dst], last'.dtag) # NoDesc)
        => /\ last'.res = (IF Resolve(layout[last'.repo], last'.tag) # NoDesc
                           THEN "exists" ELSE "notfound")
           /\ Resolve(layout'[last'.dst], last'.dtag)
                  = Resolve(layout[last'.dst], last'.dtag)]_vars

\* A copy was refused although source and destination name different manifests.
C17_Witness ==
    /\ last.op = "Copy"
    /\ last.res = "exists"
    /\ last.desc # NoDesc
    /\ Resolve(layout[last.dst], last.dtag) \notin {NoDesc, last.desc}

\* C18: after a successful Copy the destination tag resolves in the
\* destination repository to the source's manifest and dumps the source's
\* content, the source tag resolves and dumps as before, and no tag other
\* than the destination tag changes in the destination repository, so the
\* source's tag name is not created there.
C18_CopyCreatesOnlyDestinationTag ==
    [][(last'.op = "Copy" /\ last'.res = "ok")
        => LET r == last'.repo
               t == last'.tag
               dr == last'.dst
               dt == last'.dtag IN
           /\ Resolve(layout[r], t) # NoDesc
           /\ Resolve(layout'[dr], dt) = Resolve(layout[r], t)
           /\ DumpOf(layout'[dr], dt) = DumpOf(layout[r], t)
           /\ Resolve(layout'[r], t) = Resolve(layout[r], t)
           /\ DumpOf(layout'[r], t) = DumpOf(layout[r], t)
           /\ \A x \in Tags \ {dt} :
                  Resolve(layout'[dr], x) = Resolve(layout[dr], x)]_vars

\* A copy into another repository under another tag name succeeded, its
\* content dumps, and the source's tag name does not resolve at the destination.
C18_Witness ==
    /\ last.op = "Copy"
    /\ last.res = "ok"
    /\ last.dst # last.repo
    /\ last.dtag # last.tag
    /\ DumpOf(layout[last.dst], last.dtag).res = "ok"
    /\ Resolve(layout[last.dst], last.tag) = NoDesc

\* ------------------------------------------------------------ copy engine
\* C19: a save, push or pull, complete or ended part-way, writes no blob the
\* destination already holds and writes blobs of the copied graph only; a
\* complete one, whatever part of the graph the destination held before,
\* ends with the tag resolving at the destination to the manifest, with the
\* manifest and everything it points to stored there under their digests.
C19_CopyResumable ==
    [][(last'.op \in {"Save", "Push", "Pull", "SaveCancelled", "PushCancelled",
                      "PullCancelled"}
        /\ last'.res \in {"ok", "cancelled"})
        => LET r == last'.repo
               d == last'.desc
               toRegistry == last'.op \in {"Push", "PushCancelled"}
               before == IF toRegistry THEN remote[r] ELSE layout[r]
               after == IF toRegistry THEN remote'[r] ELSE layout'[r] IN
           /\ last'.written \cap DOMAIN before.blobs = {}
           /\ DOMAIN after.blobs = DOMAIN before.blobs \cup last'.written
           /\ \A x \in DOMAIN before.blobs : after.blobs[x] = before.blobs[x]
           /\ last'.res = "ok"
              => /\ Resolve(after, last'.tag) = d
                 /\ HasBlob(after, d)
                 /\ SuccessorBlobs(after.blobs[d]) \subseteq DOMAIN after.blobs
                 /\ last'.written \subseteq Graph(after.blobs, d)
                 /\ \A x \in Graph(after.blobs, d) : FromBytes(after.blobs[x]) = x]_vars

\* A push completed what a cancelled push had left: the registry held the
\* layer and the config but no manifest, and only the manifest was written.
C19_Witness ==
    /\ last.op = "Push"
    /\ last.res = "ok"
    /\ last.written = {last.desc}
    /\ Cardinality(remote[last.repo].index) = 1

\* ---------------------------------------------------------- normalization
\* C20: for every name and tag without a slash, "name:tag" and
\* "local/name:tag" are both rejected or both accepted, and when accepted
\* they give the same repository directory Name() and the same tag, so each
\* form names the layout and the tag the other form names.
C20_BothFormsSameRepository ==
    (last.op = "NewRepository"
     /\ ~Contains(last.out[1], "/") /\ ~Contains(last.out[2], "/"))
    => LET short == last.out[3]
           long == last.out[4] IN
       /\ short.err = long.err
       /\ ~short.err
          => /\ Name(short) = Name(long)
             /\ short.Registry = long.Registry
             /\ short.Repository = long.Repository
             /\ ReferenceOrDefault(short) = ReferenceOrDefault(long)

\* Both forms of a non-empty name and tag were accepted and name the
\* repository local/name and the tag.
C20_Witness ==
    /\ last.op = "NewRepository"
    /\ Len(last.out[1]) > 0
    /\ Len(last.out[2]) > 0
    /\ ~last.out[3].err
    /\ Name(last.out[4]) = DefaultRegistry \o <<"/">> \o last.out[1]
    /\ ReferenceOrDefault(last.out[3]) = last.out[2]

\* C21: for every repository stored under the local/ namespace, the name list
\* displays for it, given back as a reference, is accepted and names the
\* same repository directory.
C21_DisplayNameReversible ==
    (last.op = "List" /\ ~last.out[3].err /\ last.out[3].Registry = DefaultRegistry)
    => /\ ~last.out[5].err
       /\ Name(last.out[5]) = Name(last.out[3])

\* C22: in a push or pull a request to the registry is attempted at most
\* once, and a first answer that is a connection or timeout failure ends
\* the command with a Network error.
C22_NoAutomaticRetry ==
    last.op \in {"PushOver", "PullOver"}
    => /\ last.out[2] <= 1
       /\ (Len(last.out[1]) > 0 /\ last.out[1][1] \in {"timeout", "refused"})
          => last.res = "network"

\* C23: a private key that GenerateKeyPair has written grants nothing to
\* group and others, and a sign whose private key file grants anything to
\* group or others ends with the key error and signs nothing.
C23_PrivateKeyOwnerOnly ==
    [][/\ (last'.op = "GenerateKeyPair" /\ last'.res = "ok")
          => keyfiles'[last'.out[1]] % 64 = 0
       /\ (last'.op = "runSign" /\ keyfiles[last'.out[1]] # NoFile
             /\ keyfiles[last'.out[1]] % 64 # 0)
          => (last'.res = "keyerror" /\ layout' = layout)]_vars

\* C24: while the index.json of a repository is damaged, list still succeeds
\* and shows every tag of every other repository, and a save or dump on
\* another repository ends as it would have ended without the damage.
C24_CorruptionDoesNotCascade ==
    [][corrupt # {}
       => /\ last'.op = "List"
             => \A r \in Repos \ corrupt, t \in Tags :
                    Resolve(layout[r], t) # NoDesc
                    => (last'.res = "ok" /\ <<r, t>> \in last'.out)
          /\ (last'.op = "Save" /\ last'.repo \notin corrupt) => last'.res = "ok"
          /\ (last'.op = "Dump" /\ last'.repo \notin corrupt)
             => /\ last'.res = DumpOf(layout[last'.repo], last'.tag).res
                /\ last'.out = DumpOf(layout[last'.repo], last'.tag).out]_vars

\* C25: a save that runs while another invocation saves into a different
\* repository ends as it would have ended alone: it succeeds and its tag
\* dumps the bytes of its own file.
C25_ConcurrentSavesIndependent ==
    [][last'.op = "SaveCopy"
       => /\ last'.res = "ok"
          /\ DumpOf(layout'[last'.repo], last'.tag).out = <<last'.out[1]>>]_vars

\* ------------------------------------------------------- delete, part-way
\* Every tag the index lists resolves to a manifest whose manifest blob and
\* layer blobs are stored.
Intact(lay) ==
    \A e \in Tagged(lay.index) :
        /\ HasBlob(lay, e.digest)
        /\ LayerDigests(lay.blobs[e.digest]) \subseteq DOMAIN lay.blobs

\* C26: a Delete, complete or stopped part-way or with failed removals of
\* blobs, leaves the index without the tag, and every tag the index still
\* lists, having resolved to a stored manifest with stored layers before,
\* does so afterwards.
C26_DeleteKeepsListedTagsWhole ==
    [][(last'.op \in {"Delete", "DeleteStopped"} /\ last'.impl = "repository"
        /\ last'.res \in {"deleted", "stopped"})
       => /\ Resolve(layout'[last'.repo], last'.tag) = NoDesc
          /\ Intact(layout[last'.repo]) => Intact(layout'[last'.repo])]_vars

\* A Delete stopped after removing the manifest blob while another tag of the
\* repository, whose manifest names the same layer, is still listed.
C26_Witness ==
    /\ last.op = "DeleteStopped"
    /\ last.res = "stopped"
    /\ last.desc \in last.out[1]
    /\ \E e \in Tagged(layout[last.repo].index) :
           /\ HasBlob(layout[last.repo], e.digest)
           /\ \E d \in LayerDigests(layout[last.repo].blobs[e.digest]) :
                  d = FromBytes(FileBytes("f1")) /\ last.desc.sha256.layers[1].digest = d

\* ------------------------------------------------------------ sign, frame
\* C27: after a Sign every tag of the repository resolves to the manifest it
\* resolved to before and list shows the same entries; the index gains one
\* untagged entry, the signature manifest, whose subject is the signed
\* manifest and whose one layer holds a signature over its digest; no other
\* blob than this manifest, its layer and the empty config is added and none
\* is changed or removed.
C27_SignAddsOnlySignature ==
    [][(last'.op = "Sign" /\ last'.res = "ok")
       => LET r == last'.repo
              before == layout[r]
              after == layout'[r]
              sm == last'.sigm
              m == after.blobs[sm] IN
          /\ \A t \in Tags : Resolve(after, t) = Resolve(before, t)
          /\ ListOf(layout', corrupt) = ListOf(layout, corrupt)
          /\ after.index = before.index \cup {Entry(sm, "")}
          /\ Entry(sm, "") \notin before.index
          /\ m.artifactType = SignatureArtifactType
          /\ m.subject.digest = last'.desc
          /\ Len(m.layers) = 1
          /\ verifySignature(last'.out[1], last'.desc, after.blobs[m.layers[1].digest])
          /\ DOMAIN after.blobs \ DOMAIN before.blobs
                 \subseteq {sm, m.layers[1].digest, m.config.digest}
          /\ \A d \in DOMAIN before.blobs : after.blobs[d] = before.blobs[d]]_vars

\* A tag was signed a second time while another tag is listed: the index
\* holds two untagged signature manifests of the signed manifest.
C27_Witness ==
    /\ last.op = "Sign"
    /\ last.res = "ok"
    /\ Cardinality({e \in layout[last.repo].index :
                      e.ref = "" /\ HasBlob(layout[last.repo], e.digest)
                      /\ SubjectDigest(layout[last.repo].blobs[e.digest]) = last.desc}) = 2
    /\ Cardinality(ListOf(layout, corrupt).out) = 2

(* C28: a signature vouches only for the manifest digest it was made over.
   Whenever verify succeeds on a tag, the repository holds a signature
   manifest whose subject is the manifest the tag resolves to now, and whose
   signature was made over that very digest with a key matching one of the
   supplied public keys.  A signature made over the content the tag named
   before it was saved again never makes verify succeed. *)
C28_SignatureVouchesForOneDigest ==
    (last.op = "Verify" /\ last.res = "ok")
        => LET lay == layout[last.repo]
               d == Resolve(lay, last.tag) IN
           /\ d # NoDesc
           /\ d = last.desc
           /\ \E x \in DOMAIN lay.blobs :
                /\ Entry(x, "") \in lay.index
                /\ lay.blobs[x].artifactType = SignatureArtifactType
                /\ SubjectDigest(lay.blobs[x]) = d
                /\ LET sig == lay.blobs[lay.blobs[x].layers[1].digest] IN
                   /\ sig.over = d
                   /\ \E i \in 1..Len(last.out) : sig.signer = last.out[i]

C28_StaleSignatures(lay, d, publicKeys) ==
    {x \in Manifests(lay) :
        /\ lay.blobs[x].artifactType = SignatureArtifactType
        /\ SubjectDigest(lay.blobs[x]) # d
        /\ \E i \in 1..Len(publicKeys) :
              lay.blobs[lay.blobs[x].layers[1].digest].signer = publicKeys[i]}

C28_Witness ==
    /\ last.op = "Verify"
    /\ last.res = "nosignature"
    /\ C28_StaleSignatures(layout[last.repo], last.desc, last.out) # {}
    /\ \A t \in Tags : \A x \in C28_StaleSignatures(layout[last.repo], last.desc, last.out) :
          LET lay == layout[last.repo]
              old == SubjectDigest(lay.blobs[x]) IN
          /\ Resolve(lay, t) # old
          /\ HasBlob(lay, old)
          /\ lay.blobs[old].layers[1].digest # lay.blobs[last.desc].layers[1].digest

StepGc(A) == ops < MaxGcOps /\ A /\ ops' = ops + 1 /\ UNCHANGED <<keyfiles, corrupt, work>>

NextGc ==
    \/ \E t \in Tags, f \in Files : StepGc(Save(SigRepo, t, f))
    \/ \E t \in Tags, k \in Keys : StepGc(Sign(SigRepo, t, k))
    \/ \E t \in Tags : StepGc(OciDelete(SigRepo, t))
    \/ \E t \in Tags : StepGc(RepositoryDelete(SigRepo, t))

SpecGc == Init /\ [][NextGc]_vars

C29_SignatureManifestsOf(lay, d) ==
    {x \in DOMAIN lay.blobs :
        /\ "artifactType" \in DOMAIN lay.blobs[x]
        /\ lay.blobs[x].artifactType = SignatureArtifactType
        /\ SubjectDigest(lay.blobs[x]) = d}

C29_SignatureBlobsOf(lay, d) ==
    {x \in DOMAIN lay.blobs : "over" \in DOMAIN lay.blobs[x] /\ lay.blobs[x].over = d}

C29_OnlyTagDeleted ==
    /\ last'.op = "Delete"
    /\ last'.res = "deleted"
    /\ Cardinality({e \in Tagged(layout[last'.repo].index) : e.digest = last'.desc}) = 1
    /\ C29_SignatureManifestsOf(layout[last'.repo], last'.desc) # {}
    /\ layout'[last'.repo].exists
    /\ Tagged(layout'[last'.repo].index) # {}

(* C29: a signature is not kept alive by pointing at its subject.  After
   Delete removes the only tag of a signed manifest while other tags remain
   in the repository, the repository stores no signature manifest whose
   subject is the deleted manifest and no signature blob made over it. *)
C29_SignaturesGoWithTheirSubject ==
    [][C29_OnlyTagDeleted
        => /\ C29_SignatureManifestsOf(layout'[last'.repo], last'.desc) = {}
           /\ C29_SignatureBlobsOf(layout'[last'.repo], last'.desc) = {}
           /\ \A e \in layout'[last'.repo].index :
                 HasBlob(layout'[last'.repo], e.digest)
                    => SubjectDigest(layout'[last'.repo].blobs[e.digest]) # last'.desc]_vars


ApplyTag == "v1"

ApplyKeyLists == {<<>>} \cup {<<k>> : k \in Keys}

runApply(r, t, up, skipVerify, publicKeys, loaded) ==
    /\ LET exists == Exists(newOCILayoutStore(layout[r]), t)
           x == IF exists
                THEN [lays |-> [layout EXCEPT ![r] = newOCILayoutStore(layout[r])],
                      res |-> "ok", desc |-> Resolve(layout[r], t), written |-> {}]
                ELSE PullOf(layout, remote, r, t, up)
           rec == [NoOp EXCEPT !.op = "runApply", !.repo = r, !.tag = t, !.desc = x.desc,
                               !.out = publicKeys, !.skip = skipVerify,
                               !.pulled = ~exists /\ x.res = "ok",
                               !.written = x.written]
           kubectl == DumpOf(x.lays[r], t) IN
        IF x.res # "ok"
        THEN layout' = x.lays /\ last' = [rec EXCEPT !.res = x.res]
        ELSE \E v \in IF exists \/ skipVerify THEN {"ok"}
                      ELSE IF Len(publicKeys) = 0 THEN {"nokeys"}
                      ELSE IF ~loaded THEN {"keyerror"}
                      ELSE verifyOutcomes(x.lays[r], Resolve(x.lays[r], t), publicKeys) :
             IF v # "ok"
             THEN /\ layout' = deletePulledData(x.lays, r, t)
                  /\ last' = [rec EXCEPT !.res = v]
             ELSE /\ layout' = x.lays
                  /\ last' = IF kubectl.res # "ok"
                             THEN [rec EXCEPT !.res = kubectl.res]
                             ELSE [rec EXCEPT !.res = "ok", !.applied = TRUE]
    /\ UNCHANGED <<remote, clock, nsig>>

StepApply(A) == ops < MaxApplyOps /\ A /\ ops' = ops + 1 /\ UNCHANGED <<keyfiles, corrupt, work>>

NextApply ==
    \/ \E f \in Files : StepApply(Save(SigRepo, ApplyTag, f))
    \/ \E k \in Keys : StepApply(Sign(SigRepo, ApplyTag, k))
    \/ StepApply(Push(SigRepo, ApplyTag, TRUE))
    \/ StepApply(OciDelete(SigRepo, ApplyTag))
    \/ StepApply(RepositoryDelete(SigRepo, ApplyTag))
    \/ \E up, skipVerify, loaded \in BOOLEAN, ks \in ApplyKeyLists :
            StepApply(runApply(SigRepo, ApplyTag, up, skipVerify, ks, loaded))

SpecApply == Init /\ [][NextApply]_vars

C30_Vouched(lay, d, publicKeys) ==
    \E x \in DOMAIN lay.blobs :
        /\ "artifactType" \in DOMAIN lay.blobs[x]
        /\ lay.blobs[x].artifactType = SignatureArtifactType
        /\ SubjectDigest(lay.blobs[x]) = d
        /\ LET sig == lay.blobs[lay.blobs[x].layers[1].digest] IN
           /\ sig.over = d
           /\ \E i \in 1..Len(publicKeys) : sig.signer = publicKeys[i]

(* C30: apply never hands kubectl a manifest it pulled in the same
   invocation unless signature verification succeeded or --skip-verify was
   given.  When the manifest was pulled and verification was not skipped,
   kubectl runs only if a signature over the pulled manifest by a supplied
   public key is stored; otherwise kubectl is not run, the tag no longer
   resolves and nothing the pull wrote is left in the local layout. *)
C30_ApplyOnlyVerifiedPulls ==
    [][(last'.op = "runApply" /\ last'.pulled /\ ~last'.skip)
        => LET lay == layout'[last'.repo] IN
           IF last'.applied
           THEN /\ Resolve(lay, last'.tag) = last'.desc
                /\ C30_Vouched(lay, last'.desc, last'.out)
           ELSE /\ last'.res \in {"nokeys", "keyerror", "nosignature", "failed"}
                /\ Resolve(lay, last'.tag) = NoDesc
                /\ ~HasBlob(lay, last'.desc)
                /\ last'.written \cap DOMAIN lay.blobs = {}]_vars

C30_Witness ==
    /\ last.op = "runApply"
    /\ last.pulled
    /\ ~last.skip
    /\ ~last.applied
    /\ last.res = "failed"
    /\ last.written # {}
    /\ Resolve(remote[last.repo], last.tag) = last.desc

C30_WitnessApplied ==
    last.op = "runApply" /\ last.pulled /\ ~last.skip /\ last.applied
====
